---- MODULE Spec2Model ----
(***************************************************************************)
(* The staged-run queue of guild/plugins/queue_main.py: scheduler          *)
(* processes that pick the next staged run under the run-status lock,      *)
(* mark it pending and launch it, in run-once or in poll mode.             *)
(***************************************************************************)
EXTENDS Integers, Sequences, FiniteSets, TLC

\* ------------------------------------------------------------------ bounds

\* Runs of the repository other than the schedulers' own runs.
NRuns == 3
\* Scheduler processes sharing the repository and the lock.
NScheds == 2
\* Exit codes a launched run can end with are 0..MaxExitCode.
MaxExitCode == 2

Runs == 1..NRuns
Scheds == (NRuns + 1)..(NRuns + NScheds)
NoRun == 0
Free == 0
\* Another program holding the run-status lock.
Other == -1

VARIABLES
    status,         \* run id -> status of the run in the repository
    timestamp,      \* run id -> the run's timestamp attribute
    exit_code,      \* run id -> exit code of the run's process, once it exited
    lock,           \* holder of the run-status lock: Free, Other or a scheduler
    pc,             \* scheduler -> its position in the code
    run_once,       \* scheduler -> args.run_once
    ignore_running, \* scheduler -> args.ignore_running
    logged_waiting, \* scheduler -> state.logged_waiting
    waiting,        \* scheduler -> state.waiting
    staged,         \* scheduler -> staged runs _next_run has still to visit
    run,            \* scheduler -> the run of the current cycle, or NoRun
    launched,       \* scheduler -> the runs it passed to gapi.run, in order
    log_warning,    \* scheduler -> lock warnings logged in the current cycle
    log_found,      \* scheduler -> run -> "Found staged run" lines since its last launch
    log_idle,       \* scheduler -> "Waiting for staged runs" lines since its last launch
    log_error,      \* scheduler -> the <<run, exit code>> of each error line
    entry           \* scheduler -> its launches and logged_waiting when the
                    \* current call of _run_staged began

vars == <<status, timestamp, exit_code, lock, pc, run_once, ignore_running,
          logged_waiting, waiting, staged, run, launched,
          log_warning, log_found, log_idle, log_error, entry>>

repo == <<status, timestamp, exit_code>>
args == <<run_once, ignore_running>>
state == <<logged_waiting, waiting>>
logs == <<log_warning, log_found, log_idle, log_error, entry>>

\* ------------------------------------------------------------ repository

\* The sequences that hold each element of S once.
Orderings(S) ==
    {s \in [1..Cardinality(S) -> S] : \A i, j \in DOMAIN s : s[i] = s[j] => i = j}

\* The staged runs, not sorted.
staged_runs_unsorted ==
    Orderings({r \in Runs : status[r] = "staged"})

\* var.runs(sort=["timestamp"], filter=status staged): the staged runs in
\* ascending timestamp order; runs of equal timestamp come in any order.
staged_runs ==
    LET S == {r \in Runs : status[r] = "staged"}
    IN  {s \in Orderings(S) :
            \A i, j \in DOMAIN s : i < j => timestamp[s[i]] <= timestamp[s[j]]}

\* _running leaving out the run of every scheduler, not only the caller's.
running_runs(p) ==
    {r \in Runs : status[r] = "running"}

\* The runs with status running other than the scheduler's own run.
running(p) ==
    {r \in Runs \cup Scheds : status[r] = "running" /\ r # p}

\* op_util.set_run_pending: the run's status becomes pending.
set_run_pending(r) ==
    status' = [status EXCEPT ![r] = "pending"]

\* locklib.Lock.acquire: returns once nobody holds the lock, which the caller
\* then holds.
lock_acquire(p) ==
    /\ lock = Free
    /\ lock' = p

\* locklib.Lock.acquire raises Timeout: another holder kept the lock for the
\* timeout.
lock_timeout(p) == lock \notin {Free, p}

\* locklib.Lock.release: frees the lock when the caller holds it, and does
\* nothing otherwise.
lock_release(p) ==
    lock' = IF lock = p THEN Free ELSE lock

\* ------------------------------------------------------------- scheduler

\* _log_waiting without its test of run_once.
log_waiting_always(p) ==
    /\ log_idle' = [log_idle EXCEPT ![p] = @ + 1]
    /\ logged_waiting' = [logged_waiting EXCEPT ![p] = TRUE]

\* _log_waiting without its assignment to logged_waiting.
log_waiting_unflagged(p) ==
    /\ log_idle' = [log_idle EXCEPT ![p] = IF run_once[p] THEN @ ELSE @ + 1]
    /\ UNCHANGED logged_waiting

\* _log_waiting: the idle line in poll mode only; logged_waiting is set.
log_waiting(p) ==
    /\ log_idle' = [log_idle EXCEPT ![p] = IF run_once[p] THEN @ ELSE @ + 1]
    /\ logged_waiting' = [logged_waiting EXCEPT ![p] = TRUE]

\* _run_staged leaving its loop for the poll sleep in either mode.
break_sleep(p) ==
    /\ IF ~logged_waiting[p]
       THEN /\ log_idle' = [log_idle EXCEPT ![p] = IF run_once[p] THEN @ ELSE @ + 1]
            /\ logged_waiting' = [logged_waiting EXCEPT ![p] = TRUE]
       ELSE UNCHANGED <<log_idle, logged_waiting>>
    /\ pc' = [pc EXCEPT ![p] = "sleep"]

\* _run_staged logging the idle state whatever logged_waiting says.
break_always(p) ==
    /\ log_waiting(p)
    /\ pc' = [pc EXCEPT ![p] = IF run_once[p] THEN "return" ELSE "sleep"]

\* _safe_next_run returned None: _run_staged leaves its loop, logs the idle
\* state unless logged_waiting, and returns to run_once or to util.loop.
break(p) ==
    /\ IF ~logged_waiting[p]
       THEN log_waiting(p)
       ELSE UNCHANGED <<log_idle, logged_waiting>>
    /\ pc' = [pc EXCEPT ![p] = IF run_once[p] THEN "return" ELSE "sleep"]

\* _safe_next_run returned a run: _start_run logs it and calls _run, where
\* gapi.run(restart=run.id) starts the run's process and waits for it.
start_run(p) ==
    /\ launched' = [launched EXCEPT ![p] = Append(@, run[p])]
    /\ pc' = [pc EXCEPT ![p] = "run"]
    /\ UNCHANGED <<log_idle, logged_waiting>>

\* _run_staged calling _next_run where it calls _safe_next_run: no lock.
Acquire_unsafe(p) ==
    /\ pc[p] = "acquire"
    /\ pc' = [pc EXCEPT ![p] = "next_run"]
    /\ UNCHANGED <<repo, lock, args, state, staged, run, launched, logs>>

\* state.lock.acquire() returns: nobody holds the lock.
Acquire(p) ==
    /\ pc[p] = "acquire"
    /\ lock_acquire(p)
    /\ pc' = [pc EXCEPT ![p] = "next_run"]
    /\ UNCHANGED <<repo, args, state, staged, run, launched, logs>>

\* _safe_next_run going on to _next_run after Timeout: the handler does not
\* return.
AcquireTimeout_proceeds(p) ==
    /\ pc[p] = "acquire"
    /\ lock_timeout(p)
    /\ log_warning' = [log_warning EXCEPT ![p] = @ + 1]
    /\ pc' = [pc EXCEPT ![p] = "next_run"]
    /\ UNCHANGED <<repo, lock, args, state, staged, run, launched,
                   log_found, log_idle, log_error, entry>>

\* _run_staged going on with its loop after Timeout: the next cycle follows
\* at once.
AcquireTimeout_retries(p) ==
    /\ pc[p] = "acquire"
    /\ lock_timeout(p)
    /\ log_warning' = [log_warning EXCEPT ![p] = @ + 1]
    /\ lock_release(p)
    /\ UNCHANGED <<repo, pc, args, state, staged, run, launched,
                   log_found, log_idle, log_error, entry>>

\* _safe_next_run without its except clause: Timeout leaves it, and main.
AcquireTimeout_uncaught(p) ==
    /\ pc[p] = "acquire"
    /\ lock_timeout(p)
    /\ lock_release(p)
    /\ pc' = [pc EXCEPT ![p] = "raise"]
    /\ UNCHANGED <<repo, args, state, staged, run, launched, logs>>

\* state.lock.acquire() raises Timeout: the lock stayed with another holder.
\* The handler logs the warning and returns None through the finally clause.
AcquireTimeout(p) ==
    /\ pc[p] = "acquire"
    /\ lock_timeout(p)
    /\ log_warning' = [log_warning EXCEPT ![p] = @ + 1]
    /\ lock_release(p)
    /\ break(p)
    /\ UNCHANGED <<repo, args, waiting, staged, run, launched,
                   log_found, log_error, entry>>

\* _next_run lists the staged runs.
StagedRuns(p) ==
    /\ pc[p] = "next_run"
    /\ \E s \in staged_runs : staged' = [staged EXCEPT ![p] = s]
    /\ pc' = [pc EXCEPT ![p] = "for"]
    /\ UNCHANGED <<repo, lock, args, state, run, launched, logs>>

\* The loop of _next_run is over: return None.
NextRunNone(p) ==
    /\ pc[p] = "for"
    /\ staged[p] = <<>>
    /\ pc' = [pc EXCEPT ![p] = "release"]
    /\ UNCHANGED <<repo, lock, args, state, staged, run, launched, logs>>

\* _next_run holding back a run without setting logged_waiting.
NextRunWaiting_unflagged(p) ==
    /\ pc[p] = "for"
    /\ staged[p] # <<>>
    /\ ~ignore_running[p]
    /\ running(p) # {}
    /\ LET r == Head(staged[p])
       IN  /\ log_found' = [log_found EXCEPT ![p][r] = IF r \notin waiting[p] THEN @ + 1 ELSE @]
           /\ waiting' = [waiting EXCEPT ![p] = @ \cup {r}]
    /\ staged' = [staged EXCEPT ![p] = Tail(@)]
    /\ UNCHANGED <<repo, lock, pc, args, logged_waiting, run, launched,
                   log_warning, log_idle, log_error, entry>>

\* _next_run logging a held-back run whether or not it is in state.waiting.
NextRunWaiting_relog(p) ==
    /\ pc[p] = "for"
    /\ staged[p] # <<>>
    /\ ~ignore_running[p]
    /\ running(p) # {}
    /\ log_found' = [log_found EXCEPT ![p][Head(staged[p])] = @ + 1]
    /\ logged_waiting' = [logged_waiting EXCEPT ![p] = TRUE]
    /\ waiting' = [waiting EXCEPT ![p] = @ \cup {Head(staged[p])}]
    /\ staged' = [staged EXCEPT ![p] = Tail(@)]
    /\ UNCHANGED <<repo, lock, pc, args, run, launched,
                   log_warning, log_idle, log_error, entry>>

\* _next_run testing the running runs whatever ignore_running says.
NextRunWaiting_always(p) ==
    /\ pc[p] = "for"
    /\ staged[p] # <<>>
    /\ running(p) # {}
    /\ LET r == Head(staged[p])
       IN  /\ IF r \notin waiting[p]
              THEN /\ log_found' = [log_found EXCEPT ![p][r] = @ + 1]
                   /\ logged_waiting' = [logged_waiting EXCEPT ![p] = TRUE]
              ELSE UNCHANGED <<log_found, logged_waiting>>
           /\ waiting' = [waiting EXCEPT ![p] = @ \cup {r}]
    /\ staged' = [staged EXCEPT ![p] = Tail(@)]
    /\ UNCHANGED <<repo, lock, pc, args, run, launched,
                   log_warning, log_idle, log_error, entry>>

\* The next staged run finds other runs running: it is logged unless it is
\* in state.waiting, added to state.waiting, and the loop continues.
NextRunWaiting(p) ==
    /\ pc[p] = "for"
    /\ staged[p] # <<>>
    /\ ~ignore_running[p]
    /\ running(p) # {}
    /\ LET r == Head(staged[p])
       IN  /\ IF r \notin waiting[p]
              THEN /\ log_found' = [log_found EXCEPT ![p][r] = @ + 1]
                   /\ logged_waiting' = [logged_waiting EXCEPT ![p] = TRUE]
              ELSE UNCHANGED <<log_found, logged_waiting>>
           /\ waiting' = [waiting EXCEPT ![p] = @ \cup {r}]
    /\ staged' = [staged EXCEPT ![p] = Tail(@)]
    /\ UNCHANGED <<repo, lock, pc, args, run, launched,
                   log_warning, log_idle, log_error, entry>>

\* _next_run without its test of the running runs.
NextRunFound_unchecked(p) ==
    /\ pc[p] = "for"
    /\ staged[p] # <<>>
    /\ pc' = [pc EXCEPT ![p] = "set_run_pending"]
    /\ UNCHANGED <<repo, lock, args, state, staged, run, launched, logs>>

\* The next staged run is not held back: _next_run goes on to mark it.
NextRunFound(p) ==
    /\ pc[p] = "for"
    /\ staged[p] # <<>>
    /\ ignore_running[p] \/ running(p) = {}
    /\ pc' = [pc EXCEPT ![p] = "set_run_pending"]
    /\ UNCHANGED <<repo, lock, args, state, staged, run, launched, logs>>

\* op_util.set_run_pending(run); return run.
SetRunPending(p) ==
    /\ pc[p] = "set_run_pending"
    /\ set_run_pending(Head(staged[p]))
    /\ run' = [run EXCEPT ![p] = Head(staged[p])]
    /\ staged' = [staged EXCEPT ![p] = <<>>]
    /\ pc' = [pc EXCEPT ![p] = "release"]
    /\ UNCHANGED <<timestamp, exit_code, lock, args, state, launched, logs>>

\* A repository call of _next_run fails: the exception leaves _safe_next_run
\* through its finally clause, and then main.
NextRunRaises(p) ==
    /\ pc[p] \in {"next_run", "for", "set_run_pending"}
    /\ lock_release(p)
    /\ staged' = [staged EXCEPT ![p] = <<>>]
    /\ pc' = [pc EXCEPT ![p] = "raise"]
    /\ UNCHANGED <<repo, args, state, run, launched, logs>>

\* _safe_next_run without its finally clause.
Release_never(p) ==
    /\ pc[p] = "release"
    /\ IF run[p] # NoRun THEN start_run(p) ELSE /\ break(p)
                                                /\ UNCHANGED launched
    /\ UNCHANGED <<repo, lock, args, waiting, staged, run,
                   log_warning, log_found, log_error, entry>>

\* _next_run returned: finally state.lock.release(); then _run_staged starts
\* the run, or leaves its loop.
Release(p) ==
    /\ pc[p] = "release"
    /\ lock_release(p)
    /\ IF run[p] # NoRun THEN start_run(p) ELSE /\ break(p)
                                                /\ UNCHANGED launched
    /\ UNCHANGED <<repo, args, waiting, staged, run,
                   log_warning, log_found, log_error, entry>>

\* util.loop ending after the first call of _run_staged.
Poll_stops(p) ==
    /\ pc[p] = "sleep"
    /\ pc' = [pc EXCEPT ![p] = "return"]
    /\ UNCHANGED <<repo, lock, args, state, staged, run, launched, logs>>

\* util.loop: time.sleep(poll_interval) returns and _run_staged is called
\* again.
Poll(p) ==
    /\ pc[p] = "sleep"
    /\ pc' = [pc EXCEPT ![p] = "acquire"]
    /\ log_warning' = [log_warning EXCEPT ![p] = 0]
    /\ entry' = [entry EXCEPT ![p] = [launched |-> Len(launched[p]),
                                      logged_waiting |-> logged_waiting[p]]]
    /\ UNCHANGED <<repo, lock, args, state, staged, run, launched,
                   log_found, log_idle, log_error>>

\* _start_run without its except clause: RunError leaves it, and main.
StartRunReturns_uncaught(p) ==
    /\ pc[p] = "run"
    /\ status[run[p]] \in {"completed", "error"}
    /\ IF exit_code[run[p]] # 0
       THEN /\ pc' = [pc EXCEPT ![p] = "raise"]
            /\ UNCHANGED <<state, logs, run>>
       ELSE /\ waiting' = [waiting EXCEPT ![p] = {}]
            /\ logged_waiting' = [logged_waiting EXCEPT ![p] = FALSE]
            /\ log_found' = [log_found EXCEPT ![p] = [r \in Runs |-> 0]]
            /\ log_idle' = [log_idle EXCEPT ![p] = 0]
            /\ log_warning' = [log_warning EXCEPT ![p] = 0]
            /\ run' = [run EXCEPT ![p] = NoRun]
            /\ pc' = [pc EXCEPT ![p] = "acquire"]
            /\ UNCHANGED <<log_error, entry>>
    /\ UNCHANGED <<repo, lock, args, staged, launched>>

\* _start_run without state.waiting.clear().
StartRunReturns_keeps(p) ==
    /\ pc[p] = "run"
    /\ status[run[p]] \in {"completed", "error"}
    /\ log_error' = [log_error EXCEPT ![p] =
                        IF exit_code[run[p]] # 0
                        THEN Append(@, <<run[p], exit_code[run[p]]>>)
                        ELSE @]
    /\ logged_waiting' = [logged_waiting EXCEPT ![p] = FALSE]
    /\ log_found' = [log_found EXCEPT ![p] = [r \in Runs |-> 0]]
    /\ log_idle' = [log_idle EXCEPT ![p] = 0]
    /\ log_warning' = [log_warning EXCEPT ![p] = 0]
    /\ run' = [run EXCEPT ![p] = NoRun]
    /\ pc' = [pc EXCEPT ![p] = "acquire"]
    /\ UNCHANGED <<repo, lock, args, waiting, staged, launched, entry>>

\* gapi.run returns, or raises RunError with the exit code, which is logged;
\* then state.waiting is cleared and logged_waiting reset.
StartRunReturns(p) ==
    /\ pc[p] = "run"
    /\ status[run[p]] \in {"completed", "error"}
    /\ log_error' = [log_error EXCEPT ![p] =
                        IF exit_code[run[p]] # 0
                        THEN Append(@, <<run[p], exit_code[run[p]]>>)
                        ELSE @]
    /\ waiting' = [waiting EXCEPT ![p] = {}]
    /\ logged_waiting' = [logged_waiting EXCEPT ![p] = FALSE]
    /\ log_found' = [log_found EXCEPT ![p] = [r \in Runs |-> 0]]
    /\ log_idle' = [log_idle EXCEPT ![p] = 0]
    /\ log_warning' = [log_warning EXCEPT ![p] = 0]
    /\ run' = [run EXCEPT ![p] = NoRun]
    /\ pc' = [pc EXCEPT ![p] = "acquire"]
    /\ UNCHANGED <<repo, lock, args, staged, launched, entry>>

\* The scheduler's process ends: run_once returned, or an exception left main.
Exit(p) ==
    /\ pc[p] \in {"return", "raise"}
    /\ status' = [status EXCEPT ![p] = IF pc[p] = "return" THEN "completed" ELSE "error"]
    /\ pc' = [pc EXCEPT ![p] = "exited"]
    /\ UNCHANGED <<timestamp, exit_code, lock, args, state, staged, run, launched, logs>>

\* ----------------------------------------------------------- environment

\* The process of a launched run comes up: its status is running.
RunStarts(r) ==
    /\ status[r] = "pending"
    /\ \E p \in Scheds : pc[p] = "run" /\ run[p] = r
    /\ status' = [status EXCEPT ![r] = "running"]
    /\ UNCHANGED <<timestamp, exit_code, lock, pc, args, state, staged, run,
                   launched, logs>>

\* The process of a running run exits with code n.
RunExits(r, n) ==
    /\ status[r] = "running"
    /\ status' = [status EXCEPT ![r] = IF n = 0 THEN "completed" ELSE "error"]
    /\ exit_code' = [exit_code EXCEPT ![r] = n]
    /\ UNCHANGED <<timestamp, lock, pc, args, state, staged, run, launched, logs>>

\* A user stages a run.
Stage(r) ==
    /\ status[r] = "none"
    /\ status' = [status EXCEPT ![r] = "staged"]
    /\ UNCHANGED <<timestamp, exit_code, lock, pc, args, state, staged, run,
                   launched, logs>>

\* A user starts a run directly.
Start(r) ==
    /\ status[r] = "none"
    /\ status' = [status EXCEPT ![r] = "running"]
    /\ UNCHANGED <<timestamp, exit_code, lock, pc, args, state, staged, run,
                   launched, logs>>

\* Another program takes the run-status lock, and gives it back.
OtherAcquires ==
    /\ lock = Free
    /\ lock' = Other
    /\ UNCHANGED <<repo, pc, args, state, staged, run, launched, logs>>

OtherReleases ==
    /\ lock = Other
    /\ lock' = Free
    /\ UNCHANGED <<repo, pc, args, state, staged, run, launched, logs>>

\* --------------------------------------------------------- specifications

\* _State.__init__ for the schedulers in P, each a running run of its own,
\* over a repository whose runs have a status in Statuses; the schedulers
\* outside P never start.
InitWith(P, Once, Ignore, Statuses, Timestamps) ==
    /\ status \in [Runs \cup Scheds -> Statuses \cup {"absent", "running"}]
    /\ \A r \in Runs : status[r] \in Statuses
    /\ \A p \in Scheds : status[p] = IF p \in P THEN "running" ELSE "absent"
    /\ timestamp \in Timestamps
    /\ exit_code = [r \in Runs |-> 0]
    /\ lock = Free
    /\ pc = [p \in Scheds |-> IF p \in P THEN "acquire" ELSE "off"]
    /\ run_once \in [Scheds -> Once]
    /\ ignore_running \in [Scheds -> Ignore]
    /\ \A p \in Scheds \ P : ~run_once[p] /\ ~ignore_running[p]
    /\ logged_waiting = [p \in Scheds |-> FALSE]
    /\ waiting = [p \in Scheds |-> {}]
    /\ staged = [p \in Scheds |-> <<>>]
    /\ run = [p \in Scheds |-> NoRun]
    /\ launched = [p \in Scheds |-> <<>>]
    /\ log_warning = [p \in Scheds |-> 0]
    /\ log_found = [p \in Scheds |-> [r \in Runs |-> 0]]
    /\ log_idle = [p \in Scheds |-> 0]
    /\ log_error = [p \in Scheds |-> <<>>]
    /\ entry = [p \in Scheds |-> [launched |-> 0, logged_waiting |-> FALSE]]

\* Runs differ in nothing but their timestamps, so one assignment stands for
\* all that order and tie the runs in the same pattern: timestamps fall as
\* the run id grows, and use the values 1..k.
Timestamps ==
    {t \in [Runs -> 1..NRuns] :
        /\ \A r, q \in Runs : r < q => t[r] >= t[q]
        /\ \A r \in Runs : \A k \in 1..t[r] : \E q \in Runs : t[q] = k}

\* The assignment without ties.
Distinct == {t \in Timestamps : \A r, q \in Runs : t[r] = t[q] => r = q}

\* The first scheduler.
Q == NRuns + 1

Range(s) == {s[i] : i \in DOMAIN s}

Scheduler(p) ==
    \/ Acquire(p)
    \/ StagedRuns(p)
    \/ NextRunNone(p)
    \/ NextRunWaiting(p)
    \/ NextRunFound(p)
    \/ SetRunPending(p)
    \/ Release(p)
    \/ Poll(p)
    \/ StartRunReturns(p)
    \/ Exit(p)

\* The runs a scheduler waits for.
Launched == {r \in Runs : \E p \in Scheds : pc[p] = "run" /\ run[p] = r}

\* The exit of a run: its code matters to the scheduler that waits for it, and
\* to nobody when no scheduler does.
Exits ==
    \E r \in Runs, n \in 0..MaxExitCode :
        /\ r \in Launched \/ n = 0
        /\ RunExits(r, n)

\* Schedulers differ in nothing but their arguments, so one assignment of
\* arguments stands for its permutations.
Ordered(f) == \A p, q \in Scheds : (p < q /\ f[q]) => f[p]

\* Several schedulers over a repository of staged and running runs.
Init ==
    /\ InitWith(Scheds, BOOLEAN, BOOLEAN, {"staged", "running"}, Distinct)
    /\ Ordered(run_once)
    /\ \A p, q \in Scheds :
        (p < q /\ run_once[p] = run_once[q] /\ ignore_running[q]) => ignore_running[p]

Next ==
    \/ \E p \in Scheds : Scheduler(p)
    \/ \E p \in Scheds : AcquireTimeout(p)
    \/ \E r \in Runs : RunStarts(r)
    \/ Exits

Spec == Init /\ [][Next]_vars

\* Several schedulers where every process goes on running and the lock is
\* fair: a scheduler's call that can return does, time.sleep ends, a
\* scheduler that finds the lock free again and again gets it, and a run
\* that was launched or is running starts and exits.
FairSpec ==
    /\ Spec
    /\ \A p \in Scheds : WF_vars(Scheduler(p) \/ AcquireTimeout(p))
    /\ \A p \in Scheds : SF_vars(Acquire(p))
    /\ \A r \in Runs : WF_vars(RunStarts(r))
    /\ \A r \in Runs : WF_vars(RunExits(r, 0))

\* One scheduler whose lock acquisitions succeed, with users staging and
\* starting runs.
InitQueue == InitWith({Q}, BOOLEAN, BOOLEAN, {"none"}, Distinct)

NextQueue ==
    \/ Scheduler(Q)
    \/ \E r \in Runs : RunStarts(r)
    \/ Exits
    \/ \E r \in Runs : Stage(r)
    \/ \E r \in Runs : Start(r)

SpecQueue == InitQueue /\ [][NextQueue]_vars

\* One scheduler whose lock acquisitions succeed, over a repository that
\* only the runs it launches change.
InitAlone == InitWith({Q}, BOOLEAN, BOOLEAN, {"absent", "staged", "running"}, Timestamps)

NextAlone ==
    \/ Scheduler(Q)
    \/ \E r \in Runs : RunStarts(r)
    \/ \E r \in Launched, n \in 0..MaxExitCode : RunExits(r, n)

SpecAlone == InitAlone /\ [][NextAlone]_vars

\* The same, where every process goes on running: the scheduler's calls
\* return, and a launched run starts and exits.
FairAlone == SpecAlone /\ WF_vars(NextAlone)

\* One scheduler and another program that takes the lock at times, over a
\* repository that only the runs the scheduler launches change, and that
\* can fail; the scheduler's process goes on running: a call that can return
\* does, and time.sleep ends.
InitLock == InitWith({Q}, BOOLEAN, BOOLEAN, {"absent", "staged", "running"}, Distinct)

NextLock ==
    \/ Scheduler(Q)
    \/ AcquireTimeout(Q)
    \/ NextRunRaises(Q)
    \/ \E r \in Runs : RunStarts(r)
    \/ \E r \in Launched, n \in 0..MaxExitCode : RunExits(r, n)
    \/ OtherAcquires
    \/ OtherReleases

SpecLock == InitLock /\ [][NextLock]_vars

FairLock == SpecLock /\ WF_vars(Scheduler(Q) \/ AcquireTimeout(Q))

\* ------------------------------------------------------------ properties

TypeOK ==
    /\ status \in [Runs \cup Scheds ->
                    {"absent", "none", "staged", "pending", "running", "completed", "error"}]
    /\ timestamp \in [Runs -> 1..NRuns]
    /\ exit_code \in [Runs -> 0..MaxExitCode]
    /\ lock \in {Free, Other} \cup Scheds
    /\ pc \in [Scheds -> {"off", "acquire", "next_run", "for", "set_run_pending",
                          "release", "run", "sleep", "return", "raise", "exited"}]
    /\ run_once \in [Scheds -> BOOLEAN]
    /\ ignore_running \in [Scheds -> BOOLEAN]
    /\ logged_waiting \in [Scheds -> BOOLEAN]
    /\ waiting \in [Scheds -> SUBSET Runs]
    /\ \A p \in Scheds : staged[p] \in Seq(Runs) /\ launched[p] \in Seq(Runs)
    /\ run \in [Scheds -> Runs \cup {NoRun}]
    /\ entry \in [Scheds -> [launched : 0..NRuns, logged_waiting : BOOLEAN]]

\* The launches of run r: the places it has in the schedulers' launch lists.
Launches(r) ==
    {x \in UNION {{<<p, i>> : i \in DOMAIN launched[p]} : p \in Scheds} :
        launched[x[1]][x[2]] = r}

\* The schedulers that return r from a cycle and have not launched it yet.
Returning(r) == {p \in Scheds : pc[p] = "release" /\ run[p] = r}

\* C1: whatever the schedulers and the interleaving of their steps, a run is
\* marked pending, and so returned from a cycle and launched, at most once:
\* counting each launch of the run and each scheduler that has marked it and
\* is about to launch it gives at most one.
C1_MarkedPendingOnce ==
    \A r \in Runs : Cardinality(Launches(r)) + Cardinality(Returning(r)) <= 1

\* Two schedulers have each launched a run, the second after the first had
\* marked its run pending.
C1_Witness ==
    \E p, q \in Scheds :
        /\ p # q
        /\ launched[p] # <<>>
        /\ launched[q] # <<>>

\* The runs that scheduler p has marked pending or launched.
Dispatched(p) == Range(launched[p]) \cup ({run[p]} \ {NoRun})

Others == {r \in Runs : status[r] = "running" /\ \A p \in Scheds : r \notin Dispatched(p)}

\* The runs that were staged when the scheduler started, in a repository that
\* only the scheduler and the runs it launches change.
Staged0 == {r \in Runs : status[r] = "staged" \/ r \in Dispatched(Q)}

DistinctTimestamps(S) == \A r, q \in S : timestamp[r] = timestamp[q] => r = q

\* C3: one scheduler whose lock acquisitions succeed, staged runs of distinct
\* timestamps and no running run but the scheduler: the launches are in
\* ascending timestamp order and before every run still staged, and when the
\* scheduler has no run left to take (it sleeps or has returned) the launches
\* are all the staged runs.
C3_LaunchOrder ==
    (DistinctTimestamps(Staged0) /\ Others = {})
    => /\ \A i, j \in DOMAIN launched[Q] :
            i < j => timestamp[launched[Q][i]] < timestamp[launched[Q][j]]
       /\ \A i \in DOMAIN launched[Q] : \A r \in Runs :
            status[r] = "staged" => timestamp[launched[Q][i]] < timestamp[r]
       /\ pc[Q] \in {"sleep", "return", "exited"} => Range(launched[Q]) = Staged0

\* All the runs were staged, with distinct timestamps, and the scheduler has
\* launched them all.
C3_Witness ==
    /\ DistinctTimestamps(Runs)
    /\ Others = {}
    /\ Len(launched[Q]) = NRuns
    /\ NRuns > 1
    /\ pc[Q] \in {"sleep", "return"}

\* C4: with ignore_running true the running runs count for nothing: a cycle
\* that holds the lock returns no run only when no run is staged, the run it
\* returns is pending and no staged run has an earlier timestamp, and the
\* scheduler's waiting stays empty; the steps of the selection leave
\* logged_waiting as it is.
C4_InCycle(p) == pc[p] \in {"next_run", "for", "set_run_pending"}

C4_IgnoreRunning ==
    /\ [](ignore_running[Q] =>
            /\ waiting[Q] = {}
            /\ (pc[Q] = "release" /\ run[Q] = NoRun)
                => \A r \in Runs : status[r] # "staged"
            /\ (pc[Q] = "release" /\ run[Q] # NoRun)
                => /\ status[run[Q]] = "pending"
                   /\ \A r \in Runs :
                        status[r] = "staged" => timestamp[run[Q]] <= timestamp[r])
    /\ [][(ignore_running[Q] /\ C4_InCycle(Q))
            => logged_waiting'[Q] = logged_waiting[Q]]_vars

\* The cycle returns the earliest staged run while other runs are running
\* and a later run is still staged.
C4_Witness ==
    /\ ignore_running[Q]
    /\ pc[Q] = "release"
    /\ run[Q] # NoRun
    /\ Others # {}
    /\ \E r \in Runs : status[r] = "staged" /\ timestamp[run[Q]] < timestamp[r]

\* C5: a lock timeout is not fatal. The step that follows a failed
\* acquisition logs one warning, the only one of its cycle, changes no
\* status, launches nothing, frees no lock and returns no run; the scheduler
\* returns from run_once or sleeps, and never raises for it. In poll mode it
\* goes on: each sleep ends in another attempt to acquire the lock,
\* whatever the number of attempts that timed out.
C5_TimedOut(p) == pc[p] = "acquire" /\ lock_timeout(p) /\ pc'[p] # "acquire"

C5_TimeoutNotFatal ==
    /\ [][\A p \in Scheds : C5_TimedOut(p)
            => /\ log_warning[p] = 0
               /\ log_warning'[p] = 1
               /\ pc'[p] = IF run_once[p] THEN "return" ELSE "sleep"
               /\ run'[p] = NoRun
               /\ UNCHANGED <<repo, lock, launched>>]_vars
    /\ [](\A p \in Scheds : log_warning[p] <= 1)
    /\ \A p \in {Q} : (pc[p] = "sleep") ~> (pc[p] = "acquire")

\* A poll-mode scheduler sleeps after a timed-out cycle, its warning logged,
\* while the lock is still taken, a run is staged and none was launched.
C5_Witness ==
    /\ ~run_once[Q]
    /\ pc[Q] = "sleep"
    /\ log_warning[Q] = 1
    /\ lock = Other
    /\ launched[Q] = <<>>
    /\ \E r \in Runs : status[r] = "staged"

\* The runs whose launch by scheduler p has returned.
Returned(p) ==
    IF pc[p] = "run" THEN SubSeq(launched[p], 1, Len(launched[p]) - 1) ELSE launched[p]

\* The error lines that the failed launches of scheduler p call for.
C6_Failed(r) == status[r] = "error"

C6_Errors(p) ==
    LET failed == SelectSeq(Returned(p), C6_Failed)
    IN  [i \in DOMAIN failed |-> <<failed[i], exit_code[failed[i]]>>]

\* C6: the error lines of a scheduler are, in order, one for each of its
\* launches that failed, with the run's id and its exit code, which is not 0;
\* and the return from a launch, failed or not, raises nothing and leaves the
\* scheduler about to acquire the lock for the next cycle, with the same
\* cleared waiting state and the same launches.
C6_LaunchFailureLogged ==
    /\ [](\A p \in Scheds :
            /\ log_error[p] = C6_Errors(p)
            /\ \A i \in DOMAIN log_error[p] : log_error[p][i][2] # 0)
    /\ [][\A p \in Scheds : (pc[p] = "run" /\ pc'[p] # "run")
            => /\ pc'[p] = "acquire"
               /\ run'[p] = NoRun
               /\ waiting'[p] = {}
               /\ ~logged_waiting'[p]
               /\ launched'[p] = launched[p]]_vars

\* A launch that failed with the largest exit code was logged, and the
\* scheduler has gone on to launch the next run.
C6_Witness ==
    /\ Len(launched[Q]) = 2
    /\ pc[Q] = "run"
    /\ log_error[Q] = <<<<launched[Q][1], MaxExitCode>>>>

\* C7: run-once mode with no running run but the scheduler ends: the process
\* exits, it never sleeps, it returns from the first cycle that returns no
\* run, and by then no run is staged and every run that was staged has
\* been launched once.
C7_RunOnceTerminates ==
    /\ (run_once[Q] /\ Others = {}) => <>(pc[Q] = "exited")
    /\ [](run_once[Q] => pc[Q] # "sleep")
    /\ [][(run_once[Q] /\ pc[Q] = "release" /\ run[Q] = NoRun /\ pc'[Q] # "release")
            => pc'[Q] = "return"]_vars
    /\ []((run_once[Q] /\ Others = {} /\ pc[Q] \in {"return", "exited"})
            => /\ \A r \in Runs : status[r] # "staged"
               /\ \A r \in Staged0 : Cardinality(Launches(r)) = 1
               /\ Len(launched[Q]) = Cardinality(Staged0))

\* The run-once scheduler has exited after launching all the runs.
C7_Witness ==
    /\ run_once[Q]
    /\ pc[Q] = "exited"
    /\ Len(launched[Q]) = NRuns
    /\ \A r \in Runs : status[r] \in {"completed", "error"}

\* C8: a held-back staged run is logged once for the time it is held back:
\* since the scheduler's last launch, each run in its waiting set has one
\* "Found staged run" line, however many cycles came to it, and no other run
\* has any.
C8_OneWaitingLine ==
    \A p \in Scheds : \A r \in Runs :
        log_found[p][r] = IF r \in waiting[p] THEN 1 ELSE 0

\* Run-once mode with one staged run and another run running: the
\* scheduler has returned with no launch and one line, for the staged run.
C8_Witness ==
    /\ run_once[Q]
    /\ pc[Q] = "return"
    /\ launched[Q] = <<>>
    /\ Others # {}
    /\ \E r \in Runs :
        /\ status[r] = "staged"
        /\ waiting[Q] = {r}
        /\ log_found[Q][r] = 1

C10_LockReleased ==
    \A p \in Scheds :
        lock = p => pc[p] \in {"next_run", "for", "set_run_pending", "release"}

\* The scheduler waits for the run it launched while another program holds
\* the lock that the scheduler held to mark the run.
C10_Witness ==
    /\ pc[Q] = "run"
    /\ status[run[Q]] \in {"pending", "running"}
    /\ lock = Other

\* C11: a scheduler lists the staged runs, lists the running runs and marks a
\* run pending only while it holds the run-status lock: it is inside
\* _next_run only as the holder, and each step by which a run becomes
\* pending is the step of a scheduler that holds the lock and has come to
\* that run in its listing.
C11_AccessUnderLock ==
    /\ [](\A p \in Scheds : C4_InCycle(p) => lock = p)
    /\ [][\A r \in Runs : (status'[r] = "pending" /\ status[r] # "pending")
            => \E p \in Scheds :
                /\ lock = p
                /\ pc[p] = "set_run_pending"
                /\ Head(staged[p]) = r]_vars

\* A scheduler is about to mark a run pending, holding the lock, after
\* another scheduler's acquisition timed out: that one sleeps or has
\* returned, outside _next_run.
C11_Witness ==
    \E p, q \in Scheds :
        /\ p # q
        /\ pc[p] = "set_run_pending"
        /\ lock = p
        /\ log_warning[q] = 1
        /\ pc[q] \in {"sleep", "return"}

\* The schedulers all run in poll mode with ignore_running false.
C12_PollAll == \A p \in Scheds : ~run_once[p] /\ ~ignore_running[p]

\* C12 as stated: poll-mode schedulers with ignore_running false do not
\* starve one another: with a fair lock and runs that finish, every staged
\* run is in the end marked pending and launched by one of them.
C12_NoStarvation ==
    \A r \in Runs :
        (C12_PollAll /\ status[r] = "staged") ~> (Launches(r) # {})

\* Each scheduler sleeps after a cycle that held back a staged run for the
\* other scheduler's own run, the only running run; nothing was launched.
C12_Witness ==
    /\ C12_PollAll
    /\ \A r \in Runs : status[r] # "running"
    /\ \A p \in Scheds :
        /\ pc[p] = "sleep"
        /\ launched[p] = <<>>
        /\ running(p) = Scheds \ {p}
        /\ \E r \in waiting[p] : status[r] = "staged"

\* The staged runs that the cycle of scheduler p held back before it came to
\* the run it is about to mark, and that are still staged. Where only p
\* takes runs out of the staged status, a run of state.waiting that is
\* staged was in the cycle's listing, and one of a smaller timestamp came
\* before the run at the head.
C13_Skipped(p) ==
    {r \in waiting[p] :
        /\ status[r] = "staged"
        /\ timestamp[r] < timestamp[Head(staged[p])]}

\* C13 as stated: with ignore_running false the order of dispatch holds even
\* when runs start or finish during a cycle: when a cycle marks a run
\* pending, no run of a smaller timestamp from the same listing was held
\* back in that cycle and is still staged.
C13_OrderUnderChange ==
    \A p \in Scheds :
        (pc[p] = "set_run_pending" /\ ~ignore_running[p]) => C13_Skipped(p) = {}

\* The scheduler waits for a run it launched while a run of a smaller
\* timestamp, held back earlier in the same cycle, is still staged.
C13_Witness ==
    /\ ~ignore_running[Q]
    /\ pc[Q] = "run"
    /\ launched[Q] = <<run[Q]>>
    /\ \E r \in Runs :
        /\ status[r] = "staged"
        /\ timestamp[r] < timestamp[run[Q]]
        /\ log_found[Q][r] = 1

\* The runs in flight: marked pending by a scheduler and not finished, their
\* process not yet up (pending) or up (running).
C14_InFlight ==
    {r \in Runs :
        /\ status[r] \in {"pending", "running"}
        /\ \E p \in Scheds : r \in Dispatched(p)}

\* C14: with ignore_running false on all schedulers, at most one run that
\* the schedulers dispatched is in flight, the time between the release of
\* the lock and the run's status becoming running included.
C14_OneInFlight ==
    (\A p \in Scheds : ~ignore_running[p]) => Cardinality(C14_InFlight) <= 1

\* A scheduler has released the lock and launched a run that is still
\* pending, so not among the running runs, while another run is staged; the
\* other scheduler, which the first one's own run held back, has returned
\* from run_once with no launch.
C14_Witness ==
    \E p, q \in Scheds :
        /\ p # q
        /\ ~ignore_running[p]
        /\ ~ignore_running[q]
        /\ pc[p] = "run"
        /\ status[run[p]] = "pending"
        /\ lock = Free
        /\ pc[q] = "exited"
        /\ launched[q] = <<>>
        /\ \E r \in Runs : status[r] = "staged"

\* The step that ends a drain burst of scheduler p: a cycle returned no run,
\* and _run_staged returns.
C15_BurstEnds(p) ==
    /\ pc[p] \in {"acquire", "release"}
    /\ pc'[p] \in {"sleep", "return"}

\* The step logs the idle message.
C15_IdleLogged(p) == log_idle'[p] = log_idle[p] + 1

\* A cycle of the current burst found a run: the scheduler has launched
\* more runs than when the burst began.
C15_Found(p) == Len(launched[p]) > entry[p].launched

\* logged_waiting was set during the current burst and is still set: it is
\* set, and was not when the burst began or was reset by a launch since.
C15_Set(p) ==
    /\ logged_waiting[p]
    /\ C15_Found(p) \/ ~entry[p].logged_waiting

\* C15 as stated, for poll mode: at the end of a drain burst the idle message
\* is logged if and only if no cycle of the burst found a run and
\* logged_waiting was not set during the burst; a burst that dispatched a run
\* logs none.
C15_IdleIffNothingFound ==
    [][\A p \in Scheds : (~run_once[p] /\ C15_BurstEnds(p))
        => (C15_IdleLogged(p) <=> (~C15_Found(p) /\ ~C15_Set(p)))]_vars

\* C15, amended: at the end of a drain burst the idle message is logged if
\* and only if the scheduler is in poll mode and logged_waiting is false
\* then, which in poll mode says that it has logged no "Found staged run"
\* line and no idle message since its last launch, or since it started. So a
\* burst that dispatched runs, and held back none since, logs the message.
\* No other step logs it, which is at most once per burst.
C15_IdleIffNotLoggedWaiting ==
    /\ [][\A p \in Scheds : C15_BurstEnds(p)
            => (C15_IdleLogged(p) <=> (~run_once[p] /\ ~logged_waiting[p]))]_vars
    /\ [][\A p \in Scheds : log_idle'[p] > log_idle[p]
            => (C15_BurstEnds(p) /\ C15_IdleLogged(p))]_vars
    /\ [](\A p \in Scheds : ~run_once[p]
            => (logged_waiting[p]
                <=> (log_idle[p] > 0 \/ \E r \in Runs : log_found[p][r] > 0)))
    /\ [][\A p \in Scheds :
            (~run_once[p] /\ C15_BurstEnds(p) /\ C15_Found(p) /\ waiting[p] = {})
            => C15_IdleLogged(p)]_vars

\* A poll-mode scheduler sleeps after a burst that launched a run and then
\* logged the idle message.
C15_Witness ==
    /\ ~run_once[Q]
    /\ pc[Q] = "sleep"
    /\ C15_Found(Q)
    /\ log_idle[Q] = 1
    /\ waiting[Q] = {}

\* C16: the return from a launch attempt, gapi.run having returned or raised
\* RunError, leaves the scheduler's waiting set empty and logged_waiting
\* false, and the scheduler about to begin the next cycle; and no other step
\* takes an element out of waiting or turns logged_waiting from true to
\* false.
C16_ClearedByLaunchOnly ==
    /\ [][\A p \in Scheds : (pc[p] = "run" /\ pc'[p] # "run")
            => /\ waiting'[p] = {}
               /\ ~logged_waiting'[p]
               /\ pc'[p] = "acquire"]_vars
    /\ [][\A p \in Scheds :
            (waiting[p] \ waiting'[p] # {} \/ (logged_waiting[p] /\ ~logged_waiting'[p]))
            => (pc[p] = "run" /\ pc'[p] = "acquire")]_vars

\* A launch that failed has returned: its error is logged, waiting is empty
\* and logged_waiting false as the scheduler is about to acquire the lock,
\* while a run of an earlier timestamp is staged.
C16_Witness ==
    /\ pc[Q] = "acquire"
    /\ Len(launched[Q]) = 1
    /\ Len(log_error[Q]) = 1
    /\ waiting[Q] = {}
    /\ ~logged_waiting[Q]
    /\ \E r \in Runs : status[r] = "staged" /\ timestamp[r] < timestamp[launched[Q][1]]

\* C17: the scheduler does not sleep inside a drain burst: the return from a
\* launch leads to the next cycle's acquisition. It comes to sleep only in
\* poll mode and only from a cycle that returned no run, the staged runs
\* listed or the lock timed out; and every sleep ends in the acquisition
\* that begins another burst.
C17_SleepBetweenBursts ==
    /\ [][\A p \in Scheds : (pc[p] = "run" /\ pc'[p] # "run")
            => pc'[p] = "acquire"]_vars
    /\ [][\A p \in Scheds : (pc[p] # "sleep" /\ pc'[p] = "sleep")
            => /\ ~run_once[p]
               /\ run[p] = NoRun
               /\ run'[p] = NoRun
               /\ \/ pc[p] = "release"
                  \/ pc[p] = "acquire" /\ lock_timeout(p)]_vars
    /\ [][\A p \in Scheds : (pc[p] = "sleep" /\ pc'[p] # "sleep")
            => pc'[p] = "acquire"]_vars
    /\ \A p \in {Q} : (pc[p] = "sleep") ~> (pc[p] = "acquire")

\* A poll-mode scheduler that launched a run in an earlier burst and slept
\* has launched another in the current burst and is in the cycle after it.
C17_Witness ==
    /\ ~run_once[Q]
    /\ entry[Q].launched >= 1
    /\ Len(launched[Q]) > entry[Q].launched
    /\ pc[Q] = "next_run"

\* The step of scheduler p that handles a lock timeout: the warning is
\* logged.
C18_TimedOut(p) ==
    /\ pc[p] = "acquire"
    /\ lock_timeout(p)
    /\ log_warning'[p] = log_warning[p] + 1

\* C18: a lock timeout ends the drain burst. The cycle returns no run and the
\* loop of _run_staged stops with no further acquisition: in poll mode the
\* scheduler sleeps, and acquires next after the sleep; in run-once mode it
\* returns, and from then on launches nothing and acquires nothing, whatever
\* runs are staged.
C18_TimeoutEndsBurst ==
    /\ [][\A p \in Scheds : C18_TimedOut(p)
            => /\ pc'[p] = IF run_once[p] THEN "return" ELSE "sleep"
               /\ run'[p] = NoRun
               /\ launched'[p] = launched[p]
               /\ UNCHANGED <<repo, lock>>]_vars
    /\ [][\A p \in Scheds : (pc[p] = "acquire" /\ lock_timeout(p))
            => (pc'[p] = "acquire" \/ C18_TimedOut(p))]_vars
    /\ [][\A p \in Scheds : pc[p] = "sleep" => pc'[p] \in {"sleep", "acquire"}]_vars
    /\ [][\A p \in Scheds : pc[p] \in {"return", "exited"}
            => /\ pc'[p] \in {"return", "exited"}
               /\ launched'[p] = launched[p]
               /\ lock' # p]_vars

\* A run-once scheduler has exited after a lock timeout in its second cycle,
\* with one launch, while a run is staged that no running run holds back.
C18_Witness ==
    /\ run_once[Q]
    /\ pc[Q] = "exited"
    /\ log_warning[Q] = 1
    /\ Len(launched[Q]) = 1
    /\ running(Q) = {}
    /\ \E r \in Runs : status[r] = "staged"

\* C19: the idle message is not repeated. A scheduler has logged it at most
\* once since its last launch attempt, or since it started; logged_waiting
\* is true whenever _run_staged has returned, to the poll sleep or to
\* run_once, and only the return from a launch attempt turns it false.
C19_IdleNotRepeated ==
    /\ [](\A p \in Scheds :
            /\ log_idle[p] <= 1
            /\ pc[p] \in {"sleep", "return"} => logged_waiting[p])
    /\ [][\A p \in Scheds : (logged_waiting[p] /\ ~logged_waiting'[p])
            => (pc[p] = "run" /\ pc'[p] = "acquire")]_vars
    /\ [][\A p \in Scheds : (pc[p] = "sleep" /\ pc'[p] = "acquire")
            => (logged_waiting'[p] /\ log_idle'[p] = log_idle[p])]_vars

\* A poll-mode scheduler sleeps with one idle message logged, after a burst
\* that began with logged_waiting set and held back a staged run: the
\* message comes from an earlier burst that found the queue empty.
C19_Witness ==
    /\ ~run_once[Q]
    /\ pc[Q] = "sleep"
    /\ entry[Q].logged_waiting
    /\ log_idle[Q] = 1
    /\ waiting[Q] # {}

\* C20: a scheduler whose waiting set is not empty has logged_waiting true.
\* The step that adds a run to waiting leaves logged_waiting true, and the
\* step that turns logged_waiting false leaves waiting empty.
C20_WaitingImpliesLogged ==
    /\ [](\A p \in Scheds : waiting[p] # {} => logged_waiting[p])
    /\ [][\A p \in Scheds : (waiting'[p] \ waiting[p] # {}) => logged_waiting'[p]]_vars
    /\ [][\A p \in Scheds : (logged_waiting[p] /\ ~logged_waiting'[p])
            => waiting'[p] = {}]_vars

\* After a launch, which cleared waiting and reset logged_waiting, and an
\* idle burst, the scheduler has held back a staged run.
C20_Witness ==
    /\ launched[Q] # <<>>
    /\ pc[Q] = "sleep"
    /\ log_idle[Q] = 1
    /\ waiting[Q] # {}
    /\ logged_waiting[Q]

====
